---- MODULE Spec2Model ----
(***************************************************************************)
(* Model of immich-ppdl.py: a paginated listing (search_assets) feeding a  *)
(* bounded Queue that a pool of daemon threads (fetch_assets) consumes,    *)
(* each thread downloading one asset at a time to                          *)
(* save_to/YYYY/MM/DD/originalFileName and checking its sha1.              *)
(*                                                                         *)
(* Conventions of the model:                                               *)
(*  - a descriptor is the Asset object the generator yielded; it is named  *)
(*    by its position k in the sequence `yielded` (object identity);       *)
(*  - byte strings are sequences of byte values; a file is an inode with a *)
(*    byte string, a path names at most one inode (POSIX semantics: an     *)
(*    unlinked inode stays writable through the descriptors open on it);   *)
(*  - f.write is taken to reach the file when it is called;                *)
(*  - the only filesystem error that outlives a step is a regular file     *)
(*    standing where a directory of the destination is needed; every other *)
(*    error (permissions, a full disk) is a choice made at the step.       *)
(***************************************************************************)
EXTENDS Integers, Sequences, FiniteSets, TLC

\* ---- bounds of the model ----
MaxThreads == 2   \* largest worker count explored
MaxAssets  == 2   \* most descriptors the remote lists in one run
MaxPages   == 2   \* most search requests the remote answers in one run
MaxChunks  == 1   \* most chunks one download stream carries

\* ---- values ----
None == 0                         \* the queue's sentinel (descriptors are 1, 2, ...)
NoFile == 0                       \* a path that names no inode
NoToken == "null"                 \* nextPage absent in the response

Workers == 1..MaxThreads
Slots == 1..MaxAssets             \* descriptor numbers
Inodes == 1..(MaxAssets + 1)      \* one for a file present at start, one per open
ChunkBytes == {<<1>>, <<2>>}      \* chunks the remote may stream

\* sha1 is modelled as collision free: the digest names the bytes hashed.
sha1(bytes) == <<"sha1", bytes>>

\* base64: the checksum field is the encoded digest, or a string that does not decode.
b64encode(digest) == [b64 |-> TRUE, digest |-> digest]
BadBase64 == [b64 |-> FALSE, digest |-> <<>>]
decodebytes_raises(checksum) == ~checksum.b64
decodebytes(checksum) == checksum.digest

\* "path:" as bytes
PathPrefix == <<112, 97, 116, 104, 58>>
path_hash_of(asset) == sha1(PathPrefix \o asset.originalPath)

\* ---- the remote catalog the listing draws from ----
Asset1 ==
    [id |-> "a1", localDateTime |-> <<2024, 1, 5>>, originalFileName |-> "x.jpg",
     originalPath |-> <<47, 97>>, checksum |-> b64encode(sha1(<<1>>))]
\* an external-library asset filed under the same day and name as Asset1
Asset2 ==
    [id |-> "a2", localDateTime |-> <<2024, 1, 5>>, originalFileName |-> "x.jpg",
     originalPath |-> <<47, 98>>,
     checksum |-> b64encode(sha1(PathPrefix \o <<47, 98>>))]
Asset3 ==
    [id |-> "a3", localDateTime |-> <<2024, 2, 7>>, originalFileName |-> "y.jpg",
     originalPath |-> <<47, 99>>, checksum |-> BadBase64]
Catalog == {Asset1, Asset2, Asset3}

\* Save to /YYYY/MM/DD/originalFileName
PathOf(asset) ==
    <<asset.localDateTime[1], asset.localDateTime[2], asset.localDateTime[3],
      asset.originalFileName>>
ParentOf(path) == <<path[1], path[2], path[3]>>
Paths == {PathOf(a) : a \in Catalog}
\* the year, the month and the day directory of a path
AncestorsOf(path) == {<<path[1]>>, <<path[1], path[2]>>, ParentOf(path)}

\* next-page tokens the remote may return
Tokens == {NoToken, "", "0", "2", "x"}
TokenIsInt(token) == token \in {"0", "2"}
int(token) == IF token = "0" THEN 0 ELSE 2

\* sequences over S of length 0..n
RECURSIVE SeqsUpTo(_, _)
SeqsUpTo(S, n) ==
    IF n = 0 THEN {<<>>}
    ELSE LET shorter == SeqsUpTo(S, n - 1)
         IN shorter \cup {Append(s, x) : s \in {t \in shorter : Len(t) = n - 1}, x \in S}

VARIABLES
    threads,      \* settings.threads
    dry,          \* settings.dry
    mpc,          \* where main() is
    spawned,      \* len(threads): threads started so far
    page,         \* search_assets: page (None is 0)
    requested,    \* search requests issued so far
    pending,      \* search_assets: items of the current page not yet yielded
    inHand,       \* main: the asset yielded and not yet put (a descriptor number, or None)
    sentinels,    \* main: sentinels put so far
    joined,       \* main: threads joined so far
    queue,        \* Queue(maxsize=settings.threads)
    wpc,          \* where each fetch_assets thread is
    asset,        \* fetch_assets: the descriptor each thread holds
    hasher,       \* download_and_sha1: bytes each thread's hasher has been fed
    fd,           \* download_and_sha1: the open file of each thread, inode and offset
    dirs,         \* day directories that exist
    regular,      \* directory names at which a regular file stands
    files,        \* path -> inode, or NoFile
    data,         \* inode -> bytes
    inodes,       \* inodes allocated so far
    searches,     \* history: every search request, its page and what came back
    yielded,      \* history: the assets search_assets has yielded, in order
    enqueued,     \* history: every item put on the queue, in order
    dequeued,     \* history: every <<thread, item>> got from the queue, in order
    requests,     \* history: download requests issued per descriptor
    wrote,        \* history: the inode each descriptor's download opened
    report        \* history: what the thread logged for each descriptor

mainVars == <<mpc, spawned, page, requested, pending, inHand, sentinels, joined>>
workerVars == <<wpc, asset, hasher, fd>>
fsVars == <<dirs, files, data, inodes>>
histVars == <<searches, yielded, enqueued, dequeued, requests, wrote, report>>
vars == <<threads, dry, regular, mainVars, queue, workerVars, fsVars, histVars>>

NoFd == [inode |-> NoFile, offset |-> 0]

\* ---- main(), lines 193-212 ----
\* a spawning loop that stops one thread short
NumThreads_one_short == IF threads > 1 THEN threads - 1 ELSE 0

\* len(threads) once the spawning loop is over: range(n) is empty for n <= 0
NumThreads == IF threads > 0 THEN threads ELSE 0

\* a queue one larger than the worker count
maxsize_plus_one == threads + 1

\* Queue(maxsize=settings.threads); maxsize <= 0 means unbounded
maxsize == threads
Full(q) == maxsize > 0 /\ Len(q) >= maxsize

\* for _ in threads: queue.put(None)
NumSentinels == spawned

\* after the listing: the sentinel loop, then the join loop
AfterListing == IF NumSentinels > 0 THEN "sentinels" ELSE "join"

\* where the `for asset in search_assets(settings)` loop goes next
NextFeed(items, pg) ==
    IF items # <<>> THEN "yield"
    ELSE IF pg # 0 THEN "search"
    ELSE AfterListing

\* ---- the state after construction, up to line 193 ----
EmptyDisk ==
    /\ regular = {}
    /\ dirs = {}
    /\ files = [p \in Paths |-> NoFile]
    /\ data = [i \in Inodes |-> <<>>]
    /\ inodes = 0

\* a previous run left Asset1's destination behind
UsedDisk ==
    /\ regular = {}
    /\ dirs = {ParentOf(PathOf(Asset1))}
    /\ files = [p \in Paths |-> IF p = PathOf(Asset1) THEN 1 ELSE NoFile]
    /\ data = [i \in Inodes |-> IF i = 1 THEN <<2>> ELSE <<>>]
    /\ inodes = 1

\* a regular file stands where Asset3's month directory or day directory would be
BlockedDisk ==
    /\ regular \in {{<<2024, 2>>}, {<<2024, 2, 7>>}}
    /\ dirs = {}
    /\ files = [p \in Paths |-> NoFile]
    /\ data = [i \in Inodes |-> <<>>]
    /\ inodes = 0

Init ==
    /\ threads \in -1..MaxThreads
    /\ dry \in BOOLEAN
    /\ mpc = IF threads > 0 THEN "spawn" ELSE "search"
    /\ spawned = 0
    /\ page = 1
    /\ requested = 0
    /\ pending = <<>>
    /\ inHand = None
    /\ sentinels = 0
    /\ joined = 0
    /\ queue = <<>>
    /\ wpc = [w \in Workers |-> "unstarted"]
    /\ asset = [w \in Workers |-> None]
    /\ hasher = [w \in Workers |-> <<>>]
    /\ fd = [w \in Workers |-> NoFd]
    /\ (EmptyDisk \/ UsedDisk \/ BlockedDisk)
    /\ searches = <<>>
    /\ yielded = <<>>
    /\ enqueued = <<>>
    /\ dequeued = <<>>
    /\ requests = [k \in Slots |-> 0]
    /\ wrote = [k \in Slots |-> NoFile]
    /\ report = [k \in Slots |-> "none"]

\* lines 195-203: thread.start(); threads.append(thread)
StartThread ==
    /\ mpc = "spawn"
    /\ spawned < NumThreads
    /\ spawned' = spawned + 1
    /\ wpc' = [wpc EXCEPT ![spawned + 1] = "get"]
    /\ mpc' = IF spawned + 1 < NumThreads THEN "spawn" ELSE "search"
    /\ UNCHANGED <<threads, dry, regular, page, requested, pending, inHand, sentinels, joined,
                   queue, asset, hasher, fd, fsVars, histVars>>

\* ---- search_assets(), lines 97-115 ----
\* line 114: page = int(nextPage) if nextPage else None
NextPage(token) == IF token = NoToken \/ token = "" THEN 0 ELSE int(token)
NextPageRaises(token) == token # NoToken /\ token # "" /\ ~TokenIsInt(token)

\* lines 101-113: one search request for page `pg` and what came of it
FailedSearch(pg) == [page |-> pg, ok |-> FALSE, items |-> <<>>, nextPage |-> NoToken]
AnsweredSearch(pg, items, token) == [page |-> pg, ok |-> TRUE, items |-> items, nextPage |-> token]

\* a failed search answered by asking again
OnSearchError_retry == "search"

\* lines 108-114 sit in no try block: the exception leaves search_assets and main()
OnSearchError == "crashed"

\* lines 108-113 raise: transport error, non-success status, undecodable body
SearchFails ==
    /\ mpc = "search"
    /\ requested < MaxPages
    /\ requested' = requested + 1
    /\ searches' = Append(searches, FailedSearch(page))
    /\ mpc' = OnSearchError
    /\ UNCHANGED <<threads, dry, regular, spawned, page, pending, inHand, sentinels, joined,
                   queue, workerVars, fsVars, yielded, enqueued, dequeued, requests, wrote, report>>

\* lines 108-115: a response with `items` and `token`. int(token) is evaluated before
\* the items are yielded, so a token that is no integer loses the page. The remote
\* lists MaxAssets assets at most, and its MaxPages-th response ends the listing.
SearchResponds(items, token) ==
    /\ mpc = "search"
    /\ requested < MaxPages
    /\ requested + 1 = MaxPages => NextPageRaises(token) \/ NextPage(token) = 0
    /\ requested' = requested + 1
    /\ searches' = Append(searches, AnsweredSearch(page, items, token))
    /\ IF NextPageRaises(token)
       THEN /\ mpc' = OnSearchError
            /\ UNCHANGED <<page, pending>>
       ELSE /\ page' = NextPage(token)
            /\ pending' = items
            /\ mpc' = NextFeed(items, NextPage(token))
    /\ UNCHANGED <<threads, dry, regular, spawned, inHand, sentinels, joined,
                   queue, workerVars, fsVars, yielded, enqueued, dequeued, requests, wrote, report>>

Search ==
    \/ SearchFails
    \/ \E items \in SeqsUpTo(Catalog, MaxAssets - Len(yielded)), token \in Tokens :
          SearchResponds(items, token)

\* the last item of the page, out of turn
NextItem_last(items) == items[Len(items)]

\* line 115: yield from asset_resp.assets.items, the items in the list's order
NextItem(items) == Head(items)

Yield ==
    /\ mpc = "yield"
    /\ yielded' = Append(yielded, NextItem(pending))
    /\ inHand' = Len(yielded) + 1
    /\ pending' = Tail(pending)
    /\ mpc' = "put"
    /\ UNCHANGED <<threads, dry, regular, searches, spawned, page, requested, sentinels, joined,
                   queue, workerVars, fsVars, enqueued, dequeued, requests, wrote, report>>

\* a put that jumps the queue
put_front(q, item) == <<item>> \o q

\* queue.put(item), lines 206 and 208: Queue is first in, first out
put(q, item) == Append(q, item)

\* line 206: queue.put(asset), blocking while the queue is full
PutAsset ==
    /\ mpc = "put"
    /\ ~Full(queue)
    /\ queue' = put(queue, inHand)
    /\ enqueued' = Append(enqueued, inHand)
    /\ inHand' = None
    /\ mpc' = NextFeed(pending, page)
    /\ UNCHANGED <<threads, dry, regular, searches, spawned, page, requested, pending, sentinels, joined,
                   workerVars, fsVars, yielded, dequeued, requests, wrote, report>>

\* lines 207-208: queue.put(None), once per started thread
PutSentinel ==
    /\ mpc = "sentinels"
    /\ sentinels < NumSentinels
    /\ ~Full(queue)
    /\ queue' = put(queue, None)
    /\ enqueued' = Append(enqueued, None)
    /\ sentinels' = sentinels + 1
    /\ mpc' = IF sentinels + 1 < NumSentinels THEN "sentinels" ELSE "join"
    /\ UNCHANGED <<threads, dry, regular, searches, spawned, page, requested, pending, inHand, joined,
                   workerVars, fsVars, yielded, dequeued, requests, wrote, report>>

\* line 211: thread.join() returns once that thread has ended, by return or by exception
Joinable(w) == wpc[w] \in {"terminated", "dead"}

Join ==
    /\ mpc = "join"
    /\ joined < spawned
    /\ Joinable(joined + 1)
    /\ joined' = joined + 1
    /\ UNCHANGED <<threads, dry, regular, mpc, spawned, page, requested, pending, inHand,
                   sentinels, queue, workerVars, fsVars, histVars>>

\* line 212: logger.info("All done")
AllDone ==
    /\ mpc = "join"
    /\ joined = spawned
    /\ mpc' = "done"
    /\ UNCHANGED <<threads, dry, regular, spawned, page, requested, pending, inHand, sentinels,
                   joined, queue, workerVars, fsVars, histVars>>

\* the listing's exception leaves main(): the process ends and takes its daemon
\* threads (daemon=True, line 200) with it, wherever they are
Exit ==
    /\ mpc = "crashed"
    /\ mpc' = "exited"
    /\ UNCHANGED <<threads, dry, regular, spawned, page, requested, pending, inHand, sentinels,
                   joined, queue, workerVars, fsVars, histVars>>

Running == mpc # "exited"

\* ---- the filesystem ----
\* an existence check that never finds the file
exists_never(path) == FALSE

\* path.exists(), line 157
exists(path) == files[path] # NoFile

\* path.unlink(missing_ok=True), line 169
unlink(path) == [files EXCEPT ![path] = NoFile]

\* ENOTDIR: a component of the path's directory chain is a regular file
NotADirectory(path) == AncestorsOf(path) \cap regular # {}

\* path.parent.exists(), line 131: true of a directory and of a regular file
parent_exists(path) == ParentOf(path) \in dirs \/ ParentOf(path) \in regular

\* f.write(chunk) at the descriptor's offset; a gap left by a truncation reads as zeros
WriteAt(bytes, offset, chunk) ==
    LET end == offset + Len(chunk)
        len == IF end > Len(bytes) THEN end ELSE Len(bytes)
    IN [i \in 1..len |->
          IF i > offset /\ i <= end THEN chunk[i - offset]
          ELSE IF i <= Len(bytes) THEN bytes[i]
          ELSE 0]

\* ---- fetch_assets(), lines 141-171 ----
DescriptorOf(w) == yielded[asset[w]]
path(w) == PathOf(DescriptorOf(w))

\* queue.get() removes the head
AfterGet(q) == Tail(q)

\* the dry flag ignored
DryEnabled_ignored == FALSE

\* line 160: if settings.dry
DryEnabled == dry

\* line 170: continue
AfterExcept == "get"

\* lines 144-147: asset = queue.get(), blocking while the queue is empty
Get(w) ==
    /\ Running
    /\ wpc[w] = "get"
    /\ queue # <<>>
    /\ queue' = AfterGet(queue)
    /\ dequeued' = Append(dequeued, <<w, Head(queue)>>)
    /\ asset' = [asset EXCEPT ![w] = Head(queue)]
    /\ wpc' = [wpc EXCEPT ![w] = IF Head(queue) = None THEN "terminated" ELSE "exists"]
    /\ UNCHANGED <<threads, dry, regular, searches, mainVars, hasher, fd, fsVars,
                   yielded, enqueued, requests, wrote, report>>

\* lines 149-162: resolve the path; skip an existing file; only print it when dry
CheckExists(w) ==
    /\ Running
    /\ wpc[w] = "exists"
    /\ IF exists(path(w))
       THEN /\ report' = [report EXCEPT ![asset[w]] = "skipped"]
            /\ wpc' = [wpc EXCEPT ![w] = "get"]
       ELSE IF DryEnabled
       THEN /\ report' = [report EXCEPT ![asset[w]] = "dry"]
            /\ wpc' = [wpc EXCEPT ![w] = "get"]
       ELSE /\ wpc' = [wpc EXCEPT ![w] = "mkdir"]
            /\ UNCHANGED report
    /\ UNCHANGED <<threads, dry, regular, searches, mainVars, queue, asset, hasher, fd, fsVars,
                   yielded, enqueued, dequeued, requests, wrote>>

\* lines 131-132: create the parent directory unless it exists; mkdir raises when a
\* component is a regular file, and may raise for other reasons
Mkdir(w, ok) ==
    /\ Running
    /\ wpc[w] = "mkdir"
    /\ IF parent_exists(path(w))
       THEN /\ ok
            /\ wpc' = [wpc EXCEPT ![w] = "request"]
            /\ UNCHANGED dirs
       ELSE IF ok
       THEN /\ ~NotADirectory(path(w))
            /\ dirs' = dirs \cup {ParentOf(path(w))}
            /\ wpc' = [wpc EXCEPT ![w] = "request"]
       ELSE /\ wpc' = [wpc EXCEPT ![w] = "except"]
            /\ UNCHANGED dirs
    /\ UNCHANGED <<threads, dry, regular, mainVars, queue, asset, hasher, fd, files, data, inodes,
                   histVars>>

\* lines 120-122: hasher = sha1(); session.get(url, stream=True); raise_for_status().
\* No timeout is set: the request may also never return.
RequestOutcomes == {"ok", "transport error", "bad status", "hang"}
Request(w, outcome) ==
    /\ Running
    /\ wpc[w] = "request"
    /\ requests' = [requests EXCEPT ![asset[w]] = @ + 1]
    /\ hasher' = [hasher EXCEPT ![w] = <<>>]
    /\ wpc' = [wpc EXCEPT ![w] =
                 CASE outcome = "ok" -> "open"
                   [] outcome = "hang" -> "hung"
                   [] OTHER -> "except"]
    /\ UNCHANGED <<threads, dry, regular, searches, mainVars, queue, asset, fd, fsVars,
                   yielded, enqueued, dequeued, wrote, report>>

\* line 123: to.open("wb") creates the file or truncates the one there; it raises
\* when a component of the path is a regular file, and may raise for other reasons
Open(w, ok) ==
    /\ Running
    /\ wpc[w] = "open"
    /\ ok => ~NotADirectory(path(w))
    /\ IF ok
       THEN LET inode == IF exists(path(w)) THEN files[path(w)] ELSE inodes + 1
            IN /\ files' = [files EXCEPT ![path(w)] = inode]
               /\ data' = [data EXCEPT ![inode] = <<>>]
               /\ inodes' = IF exists(path(w)) THEN inodes ELSE inodes + 1
               /\ fd' = [fd EXCEPT ![w] = [inode |-> inode, offset |-> 0]]
               /\ wrote' = [wrote EXCEPT ![asset[w]] = inode]
               /\ wpc' = [wpc EXCEPT ![w] = "stream"]
       ELSE /\ wpc' = [wpc EXCEPT ![w] = "except"]
            /\ UNCHANGED <<files, data, inodes, fd, wrote>>
    /\ UNCHANGED <<threads, dry, regular, searches, mainVars, queue, asset, hasher, dirs,
                   yielded, enqueued, dequeued, requests, report>>

\* lines 124-126: hasher.update(chunk); f.write(chunk), which may raise. The file
\* may have been unlinked by another thread meanwhile: the write then lands in an
\* inode no path names.
Chunk(w, chunk, ok) ==
    /\ Running
    /\ wpc[w] = "stream"
    /\ Len(hasher[w]) < MaxChunks
    /\ hasher' = [hasher EXCEPT ![w] = @ \o chunk]
    /\ IF ok
       THEN /\ data' = [data EXCEPT ![fd[w].inode] = WriteAt(@, fd[w].offset, chunk)]
            /\ fd' = [fd EXCEPT ![w].offset = @ + Len(chunk)]
            /\ UNCHANGED wpc
       ELSE /\ fd' = [fd EXCEPT ![w] = NoFd]
            /\ wpc' = [wpc EXCEPT ![w] = "except"]
            /\ UNCHANGED data
    /\ UNCHANGED <<threads, dry, regular, mainVars, queue, asset, dirs, files, inodes, histVars>>

\* line 124: the stream breaks; the with blocks close the file and the exception leaves
StreamBreaks(w) ==
    /\ Running
    /\ wpc[w] = "stream"
    /\ fd' = [fd EXCEPT ![w] = NoFd]
    /\ wpc' = [wpc EXCEPT ![w] = "except"]
    /\ UNCHANGED <<threads, dry, regular, mainVars, queue, asset, hasher, fsVars, histVars>>

\* lines 135-138: the checksum decodes to the file's hash or to the path's hash
Verified(a, bytes) ==
    /\ ~decodebytes_raises(a.checksum)
    /\ decodebytes(a.checksum) \in {sha1(bytes), path_hash_of(a)}

\* lines 124-127 and 135-138: the stream ends, the file is closed, the hash is checked
StreamEnds(w) ==
    /\ Running
    /\ wpc[w] = "stream"
    /\ fd' = [fd EXCEPT ![w] = NoFd]
    /\ wpc' = [wpc EXCEPT ![w] =
                 IF Verified(DescriptorOf(w), hasher[w]) THEN "saved" ELSE "except"]
    /\ UNCHANGED <<threads, dry, regular, mainVars, queue, asset, hasher, fsVars, histVars>>

\* path.unlink(missing_ok=True) forgives a missing file (ENOENT) only: with a regular
\* file in the directory chain it raises NotADirectoryError
unlink_raises(to) == NotADirectory(to)

\* lines 165-170: log the failure, unlink the path, continue; an exception raised by
\* the unlink is raised inside the handler and ends the thread
Except(w) ==
    /\ Running
    /\ wpc[w] = "except"
    /\ report' = [report EXCEPT ![asset[w]] = "failed"]
    /\ hasher' = [hasher EXCEPT ![w] = <<>>]
    /\ IF unlink_raises(path(w))
       THEN /\ wpc' = [wpc EXCEPT ![w] = "dead"]
            /\ UNCHANGED files
       ELSE /\ files' = unlink(path(w))
            /\ wpc' = [wpc EXCEPT ![w] = AfterExcept]
    /\ UNCHANGED <<threads, dry, regular, searches, mainVars, queue, asset, fd, dirs, data, inodes,
                   yielded, enqueued, dequeued, requests, wrote>>

\* line 171: logger.info("save to")
LogSave(w) ==
    /\ Running
    /\ wpc[w] = "saved"
    /\ report' = [report EXCEPT ![asset[w]] = "saved"]
    /\ hasher' = [hasher EXCEPT ![w] = <<>>]
    /\ wpc' = [wpc EXCEPT ![w] = "get"]
    /\ UNCHANGED <<threads, dry, regular, searches, mainVars, queue, asset, fd, fsVars,
                   yielded, enqueued, dequeued, requests, wrote>>

fetch_asset(w) ==
    \/ \E ok \in BOOLEAN : Mkdir(w, ok)
    \/ \E outcome \in RequestOutcomes : Request(w, outcome)
    \/ \E ok \in BOOLEAN : Open(w, ok)
    \/ \E chunk \in ChunkBytes, ok \in BOOLEAN : Chunk(w, chunk, ok)
    \/ StreamBreaks(w)
    \/ StreamEnds(w)

fetch_assets(w) ==
    \/ Get(w)
    \/ CheckExists(w)
    \/ fetch_asset(w)
    \/ Except(w)
    \/ LogSave(w)

main ==
    \/ StartThread
    \/ Search
    \/ Yield
    \/ PutAsset
    \/ PutSentinel
    \/ Join
    \/ AllDone

Next ==
    \/ main
    \/ Exit
    \/ \E w \in Workers : fetch_assets(w)

Spec == Init /\ [][Next]_vars

\* the producer and the workers are operating-system threads: each keeps running
FairSpec ==
    /\ Spec
    /\ WF_vars(main)
    /\ \A w \in Workers : WF_vars(fetch_assets(w))

\* ---- properties ----
Listed == 1..Len(yielded)
ListingFailed == mpc \in {"crashed", "exited"}
Hung == \E w \in Workers : wpc[w] = "hung"
Died == \E w \in Workers : wpc[w] = "dead"
InLoop == {"get", "exists", "mkdir", "request", "open", "stream", "saved", "except", "hung"}
WorkersEnded ==
    /\ spawned = NumThreads
    /\ \A w \in 1..NumThreads : wpc[w] \notin InLoop
Gets(k) == {i \in DOMAIN dequeued : dequeued[i][2] = k}
GetsBy(w) == {i \in DOMAIN dequeued : dequeued[i][1] = w}
SentinelsPut == {i \in DOMAIN enqueued : enqueued[i] = None}
Processed(k) == report[k] \in {"skipped", "dry", "saved", "failed"}

\* C1: every descriptor the Lister yields is dequeued at most once (so by at most one
\* worker) and leads to at most one download request, at any moment of any run; and
\* in a run with N >= 1 workers whose listing has not failed, once every worker has
\* ended no yielded descriptor is left that was not dequeued and given its outcome.
C1_ConsumedExactlyOnce ==
    /\ \A k \in Listed : Cardinality(Gets(k)) <= 1 /\ requests[k] <= 1
    /\ (threads >= 1 /\ ~ListingFailed /\ WorkersEnded) =>
          \A k \in Listed : Cardinality(Gets(k)) = 1 /\ Processed(k)

\* towards C1: the same, for as long as no worker thread has died of an exception
C1_WhileNoWorkerDies == ~Died => C1_ConsumedExactlyOnce

\* C2: with N >= 1 workers the queue never holds more than N items, and a put
\* completes only from a state in which the queue holds fewer than N items.
C2_QueueBounded ==
    /\ [](threads >= 1 => Len(queue) <= threads)
    /\ [][(threads >= 1 /\ Len(queue') > Len(queue)) => Len(queue) < threads]_vars

\* the queue is full of descriptors and the producer waits to put its first sentinel
C2_Witness ==
    /\ threads = 2
    /\ queue = <<1, 2>>
    /\ mpc = "sentinels"
    /\ sentinels = 0

\* C3: when "All done" has been logged, all N workers were started and every one of
\* them has dequeued a sentinel and left its loop.
C3_DoneAfterWorkersExit ==
    mpc = "done" =>
        /\ spawned = NumThreads
        /\ \A w \in 1..NumThreads :
              /\ wpc[w] = "terminated"
              /\ \E i \in GetsBy(w) : dequeued[i] = <<w, None>>

\* towards C3: the same, for as long as no worker thread has died of an exception
C3_WhileNoWorkerDies == ~Died => C3_DoneAfterWorkersExit

\* C4: with N >= 1, a listing that does not fail and downloads that do not hang,
\* the producer and the workers never come to a stop before "All done" is logged.
C4_NeverStuck ==
    (threads >= 1 /\ ~ListingFailed /\ ~Hung) => (mpc = "done" \/ ENABLED Next)

\* towards C4: with N >= 1 and threads that keep running, a run in which the listing
\* does not fail, no download hangs and no worker thread dies of an exception reaches
\* completion with every worker terminated; the phases Starting, Feeding, Draining,
\* Completed are passed in that order.
Phase ==
    CASE mpc = "spawn" -> 1
      [] mpc \in {"search", "yield", "put"} -> 2
      [] mpc \in {"sentinels", "join"} -> 3
      [] mpc = "done" -> 4
      [] OTHER -> 5
Completed == mpc = "done" /\ \A w \in 1..NumThreads : wpc[w] = "terminated"

C4_CompletesWhileNoWorkerDies ==
    /\ (threads >= 1) => <>(ListingFailed \/ Hung \/ Died \/ Completed)
    /\ [][(threads >= 1 /\ ~ListingFailed')
            => (Phase' = Phase \/ Phase' = Phase + 1)]_vars

\* C5: the items put on the queue are descriptors first and sentinels last; a sentinel
\* is on record only once the listing is exhausted; at most N sentinels are put, and
\* exactly N once the sentinel loop is over; a worker dequeues at most one sentinel,
\* as its last item, and exactly one by the time completion is reported.
C5_Sentinels ==
    /\ \A i, j \in DOMAIN enqueued : (i < j /\ enqueued[i] = None) => enqueued[j] = None
    /\ SentinelsPut # {} =>
          /\ mpc \in {"sentinels", "join", "done"}
          /\ pending = <<>> /\ page = 0 /\ inHand = None
    /\ Cardinality(SentinelsPut) <= NumThreads
    /\ mpc \in {"join", "done"} => Cardinality(SentinelsPut) = NumThreads
    /\ \A w \in Workers :
          /\ \A i, j \in GetsBy(w) : (i < j) => dequeued[i][2] # None
          /\ (mpc = "done" /\ w <= NumThreads) =>
                \E i \in GetsBy(w) : dequeued[i][2] = None

\* towards C5: the same, for as long as no worker thread has died of an exception
C5_WhileNoWorkerDies == ~Died => C5_Sentinels

\* C6: a worker that handles a failed asset (whatever failed: the directory, the
\* request, the write, the hash) logs the failure and goes back to queue.get(); a
\* started worker that is no longer in its loop has dequeued a sentinel.
C6_FailureKeepsWorker ==
    /\ [][\A w \in Workers :
            (wpc[w] = "except" /\ wpc'[w] # "except")
               => (wpc'[w] = "get" /\ report'[asset[w]] = "failed")]_vars
    /\ [](\A w \in Workers :
            wpc[w] \in InLoop \cup {"unstarted"}
               \/ \E i \in GetsBy(w) : dequeued[i] = <<w, None>>)

\* towards C6: the same of every failure met where no regular file stands in the
\* destination's directory chain
C6_UnlessNotADirectory ==
    /\ [][\A w \in Workers :
            (wpc[w] = "except" /\ wpc'[w] # "except" /\ ~NotADirectory(path(w)))
               => (wpc'[w] = "get" /\ report'[asset[w]] = "failed")]_vars
    /\ [](\A w \in Workers :
            wpc[w] \in InLoop \cup {"unstarted", "dead"}
               \/ \E i \in GetsBy(w) : dequeued[i] = <<w, None>>)

\* C7: when a worker logs "save to", the checksum is the hash of the bytes it wrote or
\* of "path:" + originalPath, and the destination file exists and holds those bytes.
C7_SavedFileVerified ==
    [][\A w \in Workers :
         (wpc[w] = "saved" /\ wpc'[w] # "saved")
            => /\ Verified(DescriptorOf(w), hasher[w])
               /\ files[path(w)] # NoFile
               /\ data[files[path(w)]] = hasher[w]]_vars

\* towards C7: the same of a descriptor whose destination path no other listed
\* descriptor shares
C7_UnlessPathShared ==
    [][\A w \in Workers :
         (wpc[w] = "saved" /\ wpc'[w] # "saved"
            /\ \A k \in Listed : k # asset[w] => PathOf(yielded[k]) # path(w))
            => /\ Verified(DescriptorOf(w), hasher[w])
               /\ files[path(w)] # NoFile
               /\ data[files[path(w)]] = hasher[w]]_vars

\* C8: once a worker has logged the failure of a download it had requested, the file
\* that download opened is at no path, and the worker is back at queue.get().
C8_FailedFileRemoved ==
    \A k \in Listed :
        (report[k] = "failed" /\ requests[k] >= 1) =>
            /\ wrote[k] # NoFile => \A p \in Paths : files[p] # wrote[k]
            /\ \A w \in Workers : asset[w] = k => wpc[w] = "get"

\* towards C8: the file a failed download opened is at no path once the failure is logged
C8_FileGone ==
    \A k \in Listed :
        (report[k] = "failed" /\ wrote[k] # NoFile) => \A p \in Paths : files[p] # wrote[k]

\* C9: a worker that finds the destination path present logs the skip and goes back
\* to queue.get() without touching the filesystem; a skipped descriptor has no
\* download request and no file opened.
C9_SkipExisting ==
    /\ [][\A w \in Workers :
            (wpc[w] = "exists" /\ wpc'[w] # "exists" /\ files[path(w)] # NoFile)
               => /\ wpc'[w] = "get"
                  /\ report'[asset[w]] = "skipped"
                  /\ UNCHANGED <<fsVars, regular, requests, wrote>>]_vars
    /\ [](\A k \in Listed :
            report[k] = "skipped" => (requests[k] = 0 /\ wrote[k] = NoFile))

\* a descriptor skipped in a run that downloads, its destination still in place
C9_Witness ==
    /\ ~dry
    /\ \E k \in Listed : report[k] = "skipped" /\ files[PathOf(yielded[k])] # NoFile

\* C10: with dry enabled no step changes the filesystem and no download request is
\* issued, up to and including completion.
C10_DryRunTouchesNothing ==
    /\ [][dry => UNCHANGED <<fsVars, regular>>]_vars
    /\ [](dry => \A k \in Slots : requests[k] = 0 /\ wrote[k] = NoFile)

\* a dry run of two workers, complete, both descriptors printed
C10_Witness ==
    /\ dry
    /\ Completed
    /\ threads = 2
    /\ report[1] = "dry"
    /\ report[2] = "dry"

\* ---- the listing ----
RECURSIVE Concat(_)
Concat(seqs) == IF seqs = <<>> THEN <<>> ELSE Head(seqs) \o Concat(Tail(seqs))
\* the items of the pages received so far, page after page
PagesItems == Concat([i \in DOMAIN searches |-> searches[i].items])
ListingOver == mpc \in {"sentinels", "join", "done"}
IsDescriptor(item) == item # None
DescriptorsIn(items) == SelectSeq(items, IsDescriptor)

\* C11: while the listing has not failed, the descriptors yielded so far followed by
\* the items of the current page still to come are the concatenation of the pages
\* received, in page order and within-page order; the producer has enqueued the
\* descriptors yielded, each once, in that order, all but the one it holds; and once
\* the listing is over, the descriptors yielded and enqueued are exactly that
\* concatenation.
C11_ListsEveryItemInOrder ==
    /\ ~ListingFailed => yielded \o pending = PagesItems
    /\ DescriptorsIn(enqueued) =
          [k \in 1..(Len(yielded) - (IF inHand = None THEN 0 ELSE 1)) |-> k]
    /\ ListingOver =>
          /\ yielded = PagesItems
          /\ DescriptorsIn(enqueued) = [k \in 1..Len(PagesItems) |-> k]

\* a listing of two pages, one item on each, is over
C11_Witness ==
    /\ ListingOver
    /\ Len(searches) = 2
    /\ searches[1].items # <<>>
    /\ searches[2].items # <<>>
    /\ searches[1].items # searches[2].items

\* a page of two different items has been yielded whole
C11_WholePage ==
    /\ Len(searches) = 1
    /\ Len(searches[1].items) = 2
    /\ searches[1].items[1] # searches[1].items[2]
    /\ pending = <<>>
    /\ ~ListingFailed

\* a search request that failed: no response, a response that is no success, a body
\* that does not decode, or a next-page token that is no integer
SearchFailedAt(i) ==
    \/ ~searches[i].ok
    \/ searches[i].nextPage \notin {NoToken, "", "0", "2"}
SearchFailed == \E i \in DOMAIN searches : SearchFailedAt(i)

\* C12: once a search request has failed it is the last request of the run (none is
\* issued or retried after it), the items of its page are not yielded, the producer
\* puts nothing more on the queue, descriptor or sentinel, main() is left by the
\* exception, and "All done" is not logged.
C12_ListingFailureIsFatal ==
    /\ [](SearchFailed =>
            /\ SearchFailedAt(Len(searches))
            /\ mpc \in {"crashed", "exited"}
            /\ \A i \in DOMAIN enqueued : enqueued[i] # None)
    /\ [][SearchFailed => UNCHANGED <<searches, yielded, enqueued, sentinels, joined>>]_vars
    /\ [][(SearchFailed' /\ ~SearchFailed) => UNCHANGED <<yielded, enqueued, pending>>]_vars

\* the second search request failed after the first page's descriptor was enqueued
\* and taken by a worker; the run has ended
C12_Witness ==
    /\ mpc = "exited"
    /\ Len(searches) = 2
    /\ ~searches[2].ok
    /\ Len(enqueued) = 1
    /\ Len(dequeued) = 1

\* a response with a token that is no integer has ended the run, its items unlisted
C12_BadToken ==
    /\ mpc = "exited"
    /\ Len(searches) = 1
    /\ searches[1].ok
    /\ searches[1].nextPage = "x"
    /\ searches[1].items # <<>>
    /\ yielded = <<>>

\* ---- descriptors that share a destination path ----
SamePath(k, j) == k # j /\ PathOf(yielded[k]) = PathOf(yielded[j])
Opens(w) == wpc[w] = "open" /\ wpc'[w] = "stream"

\* C13: of two listed descriptors with one destination path at most one is saved and
\* at most one has a file opened for it; and no worker opens for writing a path at
\* which a file exists.
C13_SamePathWrittenOnce ==
    /\ [](\A k, j \in Listed :
            SamePath(k, j) =>
                /\ ~(report[k] = "saved" /\ report[j] = "saved")
                /\ ~(wrote[k] # NoFile /\ wrote[j] # NoFile))
    /\ [][\A w \in Workers : Opens(w) => files[path(w)] = NoFile]_vars

\* towards C13: no worker opens a path at which a file exists, as long as it is the
\* only worker
C13_SingleWorker ==
    [][\A w \in Workers : (threads <= 1 /\ Opens(w)) => files[path(w)] = NoFile]_vars

\* the file at descriptor k's destination, and whether it is there and verifies
FileOf(k) == files[PathOf(yielded[k])]
HoldsVerified(k) == FileOf(k) # NoFile /\ Verified(yielded[k], data[FileOf(k)])

\* C14: from the moment a descriptor is reported saved, no step changes which file
\* its destination path names or the bytes of that file, and the file is there and
\* verifies; so it is at completion.
C14_SavedFileUntouched ==
    /\ [][\A k \in Listed :
            report[k] = "saved" =>
                /\ FileOf(k)' = FileOf(k)
                /\ data'[FileOf(k)] = data[FileOf(k)]]_vars
    /\ [](\A k \in Listed : (mpc = "done" /\ report[k] = "saved") => HoldsVerified(k))

\* towards C14: the same, as long as there is one worker only
C14_SingleWorker ==
    /\ [][\A k \in Listed :
            (threads <= 1 /\ report[k] = "saved") =>
                /\ FileOf(k)' = FileOf(k)
                /\ data'[FileOf(k)] = data[FileOf(k)]]_vars
    /\ [](\A k \in Listed :
            (threads <= 1 /\ mpc = "done" /\ report[k] = "saved") => HoldsVerified(k))

\* towards C14: at completion a descriptor is reported saved and its file is gone
C14_SavedFileGone ==
    \A k \in Listed : (mpc = "done" /\ report[k] = "saved") => FileOf(k) # NoFile

\* ---- pagination ----
LastSearch == searches[Len(searches)]

\* C15: the first search request asks for page 1; a further request follows a response
\* only if that response carries a token, and asks for the page the token names; and
\* a listing that is over has ended at a response whose token is absent.
C15_FollowsToken ==
    /\ searches # <<>> => searches[1].page = 1
    /\ \A i \in DOMAIN searches :
          i < Len(searches) =>
              /\ searches[i].ok
              /\ searches[i].nextPage # NoToken
              /\ searches[i + 1].page = int(searches[i].nextPage)
    /\ ListingOver => (LastSearch.ok /\ LastSearch.nextPage = NoToken)

\* towards C15: the same with the empty token counted as absent
C15_EmptyIsAbsent ==
    ListingOver => (LastSearch.ok /\ LastSearch.nextPage \in {NoToken, ""})

\* towards C15: the same with every token that python holds false, or whose integer
\* is 0, counted as absent
C15_UnlessTokenFalsy ==
    /\ searches # <<>> => searches[1].page = 1
    /\ \A i \in DOMAIN searches :
          i < Len(searches) =>
              /\ searches[i].ok
              /\ searches[i].nextPage \notin {NoToken, "", "0"}
              /\ searches[i + 1].page = int(searches[i].nextPage)
    /\ ListingOver => (LastSearch.ok /\ LastSearch.nextPage \in {NoToken, "", "0"})
    /\ (~ListingOver /\ ~ListingFailed /\ searches # <<>>
          /\ LastSearch.nextPage \notin {NoToken, "", "0"}) => page = int(LastSearch.nextPage)

\* ---- the start of the workers ----
\* the worker count N the settings ask for
N == IF threads > 0 THEN threads ELSE 0
Started == {w \in Workers : wpc[w] # "unstarted"}

\* C16: the workers started are workers 1..spawned, never more than N; a search
\* request or an item on the queue is on record only when exactly N workers have
\* been started; the first search request is issued from a state in which all N
\* workers wait at queue.get() on the empty queue; and no worker is started once a
\* search request was issued or an item was put.
C16_WorkersStartedFirst ==
    /\ [](Started = 1..spawned /\ spawned <= N)
    /\ []((searches # <<>> \/ enqueued # <<>>) => Cardinality(Started) = N)
    /\ [][(searches = <<>> /\ searches' # <<>>) =>
            /\ queue = <<>>
            /\ \A w \in 1..N : wpc[w] = "get"]_vars
    /\ [][(searches # <<>> \/ enqueued # <<>>) => Started' = Started]_vars

\* two workers wait on the empty queue, the first search request about to be issued
C16_Witness ==
    /\ threads = 2
    /\ mpc = "search"
    /\ searches = <<>>
    /\ wpc = <<"get", "get">>
    /\ queue = <<>>

\* ---- the order of the queue ----
ItemsGot == [i \in DOMAIN dequeued |-> dequeued[i][2]]

\* C17: the descriptors are put on the queue in the order they were yielded (1, 2, ...
\* with none left out), the items got from the queue are, in order, the first of the
\* items put, and the queue holds the rest in order: a descriptor listed before
\* another is dequeued before it.
C17_FirstInFirstOut ==
    /\ \A i \in DOMAIN DescriptorsIn(enqueued) : DescriptorsIn(enqueued)[i] = i
    /\ Len(dequeued) <= Len(enqueued)
    /\ ItemsGot = SubSeq(enqueued, 1, Len(dequeued))
    /\ queue = SubSeq(enqueued, Len(dequeued) + 1, Len(enqueued))
    /\ \A i, j \in DOMAIN dequeued :
          (i < j /\ dequeued[j][2] # None) =>
              (dequeued[i][2] # None /\ dequeued[i][2] < dequeued[j][2])

\* two descriptors were dequeued in listing order by two workers, and the second one's
\* processing has finished while the first one's has not
C17_Witness ==
    /\ Len(dequeued) >= 2
    /\ dequeued[1][2] = 1
    /\ dequeued[2][2] = 2
    /\ dequeued[1][1] # dequeued[2][1]
    /\ report[1] = "none"
    /\ report[2] # "none"

\* ---- a download that hangs ----
HungWorkers == {w \in Workers : wpc[w] = "hung"}
AtRest == ~ENABLED Next
OthersDone(h) ==
    /\ inHand = None /\ pending = <<>> /\ page = 0
    /\ \A k \in Listed : k # asset[h] => (Gets(k) # {} /\ Processed(k))
    /\ Cardinality(SentinelsPut) = threads
    /\ \A w \in 1..threads :
          w # h => (wpc[w] = "terminated" /\ \E i \in GetsBy(w) : dequeued[i] = <<w, None>>)

\* C18: with N >= 2 workers and a listing that does not fail, a worker whose download
\* hangs never dequeues a sentinel and "All done" is never logged; and when exactly
\* one worker hangs, the run comes to rest only with every other yielded descriptor
\* enqueued, dequeued and given its outcome, all N sentinels put, and every other
\* worker terminated by a sentinel.
C18_HangIsolated ==
    /\ \A h \in HungWorkers :
          /\ mpc # "done"
          /\ \A i \in GetsBy(h) : dequeued[i][2] # None
    /\ \A h \in Workers :
          (threads >= 2 /\ ~ListingFailed /\ HungWorkers = {h} /\ AtRest) => OthersDone(h)

\* towards C18: the same, for the runs in which no worker thread dies of an exception
C18_WhileNoWorkerDies == ~Died => C18_HangIsolated

\* towards C18: with threads that keep running, a run of two workers in which exactly
\* one download hangs, the listing does not fail and no worker thread dies of an
\* exception brings the other worker to its sentinel
C18_OthersProgress ==
    \A h \in Workers :
        (threads >= 2 /\ wpc[h] = "hung")
            ~> (ListingFailed \/ Died \/ Cardinality(HungWorkers) > 1 \/ OthersDone(h))

\* ---- the end of the run ----
SentinelGot == \E i \in DOMAIN dequeued : dequeued[i][2] = None

\* C19: once a worker has dequeued a sentinel the queue holds no descriptor (sentinels
\* only, or nothing), so no worker takes its sentinel while a descriptor waits; and
\* when "All done" is logged the queue is empty.
C19_NoDescriptorBehindSentinel ==
    /\ SentinelGot => \A i \in DOMAIN queue : queue[i] = None
    /\ \A w \in Workers :
          wpc[w] = "terminated" => \A i \in DOMAIN queue : queue[i] = None
    /\ mpc = "done" => queue = <<>>

\* towards C19: the same, for the runs with at least one worker in which no worker
\* thread dies of an exception
C19_WhileWorkersLive == (threads >= 1 /\ ~Died) => C19_NoDescriptorBehindSentinel

\* towards C19: in every run, a sentinel is dequeued only when no descriptor waits
C19_SentinelLast == SentinelGot => \A i \in DOMAIN queue : queue[i] = None

\* C20: when "All done" is logged, every descriptor the listing yielded has been
\* dequeued by a worker and given its outcome (skipped, dry-listed, saved or failed),
\* whatever the value of `threads`.
C20_DoneMeansAllProcessed ==
    mpc = "done" => \A k \in Listed : Gets(k) # {} /\ Processed(k)

\* towards C20: the same for a worker count of 1 or more
C20_WithWorkers == threads >= 1 => C20_DoneMeansAllProcessed

====
